---- MODULE Spec2Model ----
(***************************************************************************)
(* The API gateway of hameed1198/api-gateway: the partner registry         *)
(* (partners.py), the sliding-window rate limiter (rate_limiter.py), the   *)
(* audit logger (logging_service.py) and the gate pipeline and forwarder   *)
(* (gateway.py).                                                           *)
(*                                                                         *)
(* Time.  time.time() is a float number of seconds.  The model counts time *)
(* in half seconds, so that the instants 0 s, 1 s, 61 s and 61.5 s are the *)
(* integers 0, 2, 122 and 123, and the clock only takes the values of      *)
(* Instants.                                                               *)
(*                                                                         *)
(* Specifications.                                                         *)
(*   SpecLimiter   the RateLimiter object called directly                  *)
(*   SpecRegistry  the PartnerStore object called directly                 *)
(*   Spec          the gateway: concurrent request tasks on one event loop *)
(***************************************************************************)
EXTENDS Integers, Sequences, FiniteSets, TLC

VARIABLES
    now,            \* the wall clock time.time(), in half seconds
    requests,       \* RateLimiter._requests: partner id -> list of timestamps
    calllog,        \* history: every is_allowed call made, [p, t, max, ok]
    quota,          \* SpecLimiter: the fixed max_requests each partner is called with
    last,           \* the last direct call: its arguments, the value returned or
                    \* the exception raised
    nops,           \* the number of direct registry calls made
    partners,       \* PartnerStore._partners: partner id -> Partner
    api_key_index,  \* PartnerStore._api_key_index: api key -> partner id
    bound,          \* history: api key -> the id it was created with, the ids it was bound to
    deactivated,    \* history: the ids for which deactivate_partner returned True
    logs,           \* RequestLogger._logs, oldest first
    counter,        \* RequestLogger._counter
    history,        \* history: every RequestLog ever appended, in order
    task,           \* the request tasks: position, inputs, locals, response
    running         \* the task that holds the event loop, or NoTask

limiterVars  == <<requests, calllog>>
registryVars == <<partners, api_key_index, bound, deactivated>>
loggerVars   == <<logs, counter, history>>
gatewayVars  == <<task, running>>
vars == <<now, requests, calllog, quota, last, nops, partners, api_key_index, bound,
          deactivated, logs, counter, history, task, running>>

(***************************************************************************)
(* Bounds of the model                                                     *)
(***************************************************************************)
MaxQuota == 2       \* quotas range over 0..MaxQuota
MaxCalls == 4       \* is_allowed calls in one run of SpecLimiter
MaxOps   == 3       \* calls in one run of SpecRegistry
MaxTasks == 2       \* request tasks in one run of Spec

(***************************************************************************)
(* Program constants                                                       *)
(***************************************************************************)
window_seconds == 60

W == 2 * window_seconds                     \* the window, in half seconds

\* 0 s, 1 s, 60.5 s, 61 s and 61.5 s: 1 s and 61 s are exactly one window
\* apart, 1 s and 60.5 s half a second less
Instants == {0, 2, W + 1, W + 2, W + 3}

None    == <<>>                             \* Python None; Some(x) is a value
Some(x) == <<x>>
Get(o)  == o[1]

Max(a, b) == IF a >= b THEN a ELSE b

RECURSIVE MinOf(_)
MinOf(s) == IF Len(s) = 1 THEN s[1]
            ELSE LET m == MinOf(Tail(s)) IN IF s[1] <= m THEN s[1] ELSE m

\* int(x) of a float x = d / 2 seconds: truncation towards zero
IntSeconds(d) == IF d >= 0 THEN d \div 2 ELSE -((-d) \div 2)

(***************************************************************************)
(* rate_limiter.py                                                         *)
(***************************************************************************)
\* self._requests[partner_id] of a defaultdict(RateLimitState)
SharedState(reqs, p) == IF reqs = <<>> THEN <<>> ELSE reqs[CHOOSE k \in DOMAIN reqs : TRUE]
State(reqs, p) == IF p \in DOMAIN reqs THEN reqs[p] ELSE <<>>

\* [ts for ts in state.timestamps if ts > cutoff_time]
NoPruning(ts, t) == ts
InclusiveWindow(ts, t) == SelectSeq(ts, LAMBDA x : x >= t - W)
ValidTimestamps(ts, t) == SelectSeq(ts, LAMBDA x : x > t - W)

\* the branch of line 54 that is not taken when the request is recorded
NoLimitCheck(n, max_requests) == FALSE
OffByOneLimit(n, max_requests) == n > max_requests
AtLimit(n, max_requests) == n >= max_requests

\* is_allowed at time t on the stored list ts: the result and the new list
AllowWithoutRecording(ts, t, max_requests) ==
    LET kept == ValidTimestamps(ts, t) IN
    [ok |-> ~AtLimit(Len(kept), max_requests), timestamps |-> kept]
RecordWhenRejected(ts, t, max_requests) ==
    LET kept == ValidTimestamps(ts, t) IN
    [ok |-> ~AtLimit(Len(kept), max_requests), timestamps |-> Append(kept, t)]
RejectionRestartsWindow(ts, t, max_requests) ==
    LET kept == ValidTimestamps(ts, t) IN
    IF AtLimit(Len(kept), max_requests)
    THEN [ok |-> FALSE,
          timestamps |-> IF kept = <<>> THEN kept ELSE Append(Tail(kept), t)]
    ELSE [ok |-> TRUE, timestamps |-> Append(kept, t)]
is_allowed(ts, t, max_requests) ==
    LET kept == ValidTimestamps(ts, t) IN
    IF AtLimit(Len(kept), max_requests)
    THEN [ok |-> FALSE, timestamps |-> kept]
    ELSE [ok |-> TRUE,  timestamps |-> Append(kept, t)]

RemainingOffByOne(ts, t, max_requests) ==
    Max(0, max_requests - Len(ValidTimestamps(ts, t)) - 1)
get_remaining(ts, t, max_requests) ==
    Max(0, max_requests - Len(ValidTimestamps(ts, t)))

get_reset_time(ts, t) ==
    IF ts = <<>> THEN 0
    ELSE Max(0, IntSeconds((MinOf(ts) + W) - t))

(***************************************************************************)
(* The clock                                                               *)
(***************************************************************************)
Advance(instants) ==
    /\ \E t \in instants : t > now /\ now' = t
    /\ UNCHANGED <<requests, calllog, quota, last, nops, partners, api_key_index,
                   bound, deactivated, logs, counter, history, task, running>>

Tick == Advance(Instants)

(***************************************************************************)
(* SpecLimiter: direct calls of one RateLimiter, each partner with a fixed *)
(* quota                                                                   *)
(***************************************************************************)
LimiterIds == {"partner-001", "partner-002"}
NoTask == 0

LimIsAllowed(p) ==
    /\ Len(calllog) < MaxCalls
    /\ LET r == is_allowed(State(requests, p), now, quota[p]) IN
        /\ requests' = (p :> r.timestamps) @@ requests
        /\ calllog' = Append(calllog, [p |-> p, t |-> now, max |-> quota[p], ok |-> r.ok])
    /\ UNCHANGED <<now, quota, last, nops, registryVars, loggerVars, gatewayVars>>

\* get_remaining and get_reset_time return a value (the operators above) and,
\* by reading self._requests[partner_id], create the partner's entry
LimGetRemaining(p) ==
    /\ requests' = (p :> State(requests, p)) @@ requests
    /\ UNCHANGED <<now, calllog, quota, last, nops, registryVars, loggerVars, gatewayVars>>

LimGetResetTime(p) ==
    /\ requests' = (p :> State(requests, p)) @@ requests
    /\ UNCHANGED <<now, calllog, quota, last, nops, registryVars, loggerVars, gatewayVars>>

InitIdle ==
    /\ now = 0
    /\ requests = <<>>
    /\ calllog = <<>>
    /\ last = [op |-> "none"]
    /\ nops = 0
    /\ logs = <<>>
    /\ counter = 0
    /\ history = <<>>
    /\ running = NoTask

InitLimiter ==
    /\ InitIdle
    /\ quota \in [LimiterIds -> 0 .. MaxQuota]
    /\ partners = <<>>
    /\ api_key_index = <<>>
    /\ bound = <<>>
    /\ deactivated = {}
    /\ task = <<>>

NextLimiter ==
    \/ Tick
    \/ \E p \in LimiterIds : LimIsAllowed(p)
    \/ \E p \in LimiterIds : LimGetRemaining(p)
    \/ \E p \in LimiterIds : LimGetResetTime(p)

SpecLimiter == InitLimiter /\ [][NextLimiter]_vars

(***************************************************************************)
(* Claims about the rate limiter                                           *)
(***************************************************************************)
\* the is_allowed calls of partner p that returned True
Admitted(p) == SelectSeq(calllog, LAMBDA c : c.p = p /\ c.ok)

\* how many of them were made in the window (e - W, e] that ends at e
AdmittedIn(p, e) ==
    Cardinality({i \in 1 .. Len(Admitted(p)) :
                    Admitted(p)[i].t > e - W /\ Admitted(p)[i].t <= e})

\* C1: for every partner, called with a fixed quota q >= 0 at non-decreasing
\* times, the number of is_allowed calls that returned True with call times in
\* any window (e - W, e] of length W is at most q; with q = 0 no call returns
\* True.
C1_QuotaBound ==
    \A p \in LimiterIds : \A e \in Instants : AdmittedIn(p, e) <= quota[p]

\* a partner has used its whole quota in the current window and was rejected
\* there, and a partner with quota 0 was rejected
C1_Witness ==
    \E p, z \in LimiterIds :
        /\ quota[p] >= 1 /\ quota[z] = 0
        /\ AdmittedIn(p, now) = quota[p]
        /\ \E i, j \in 1 .. Len(calllog) :
              /\ calllog[i].p = p /\ ~calllog[i].ok /\ calllog[i].t = now
              /\ calllog[j].p = z /\ ~calllog[j].ok

\* the is_allowed calls made so far for partner p: their times, their results
CallTimes(p)   == LET c == SelectSeq(calllog, LAMBDA x : x.p = p)
                  IN  [i \in 1 .. Len(c) |-> c[i].t]
CallResults(p) == LET c == SelectSeq(calllog, LAMBDA x : x.p = p)
                  IN  [i \in 1 .. Len(c) |-> c[i].ok]

IsPrefix(s, t) == Len(s) <= Len(t) /\ s = SubSeq(t, 1, Len(s))

\* C3 as claimed: with quota 2 and a window of 60 s, is_allowed calls of one
\* partner at 0 s, 1 s and 61 s return True, True, True and a fourth call at
\* 61.5 s returns False.
C3_Original ==
    \A p \in LimiterIds :
        (quota[p] = 2 /\ IsPrefix(CallTimes(p), <<0, 2, 122, 123>>))
            => IsPrefix(CallResults(p), <<TRUE, TRUE, TRUE, FALSE>>)

\* C3, amended: with quota 2 and a window of 60 s, is_allowed calls of one
\* partner at 0 s, 1 s and 61 s return True, True, True, and a fourth call at
\* 61.5 s returns True as well: at 61 s the timestamps 0 s and 1 s have both
\* left the window (1 s is exactly 60 s old), so only 61 s is stored.
C3_SlidingWindow ==
    \A p \in LimiterIds :
        (quota[p] = 2 /\ IsPrefix(CallTimes(p), <<0, 2, 122, 123>>))
            => IsPrefix(CallResults(p), <<TRUE, TRUE, TRUE, TRUE>>)

C3_Witness ==
    \E p \in LimiterIds :
        /\ quota[p] = 2
        /\ CallTimes(p) = <<0, 2, 122, 123>>
        /\ requests[p] = <<122, 123>>

(***************************************************************************)
(* partners.py                                                             *)
(***************************************************************************)
Service == {"users", "posts", "comments", "todos", "albums", "photos"}

\* Partner(id, name, api_key, allowed_services, rate_limit), is_active = True.
\* created_at is never read and is left out.
Partner(partner_id, name, api_key, allowed_services, rate_limit) ==
    [id |-> partner_id, name |-> name, api_key |-> api_key,
     allowed_services |-> allowed_services, rate_limit |-> rate_limit,
     is_active |-> TRUE]

\* Partner.can_access
AccessToAnyService(partner, service) == partner.is_active
AccessToNoService(partner, service) == FALSE
can_access(partner, service) ==
    partner.is_active /\ service \in partner.allowed_services

\* PartnerStore.create_partner, once api_key is a string: a store is
\* [partners, api_key_index]
create_partner(store, partner_id, name, allowed_services, rate_limit, api_key) ==
    [partners |->
        (partner_id :> Partner(partner_id, name, api_key, allowed_services, rate_limit))
            @@ store.partners,
     api_key_index |-> (api_key :> partner_id) @@ store.api_key_index]

\* f"key-{secrets.token_hex(16)}": 128 random bits, modelled as a key that is
\* not in the index yet
GeneratedKeys == {"key-0a1b2c3d"}

\* dict.get
DictGet(d, k) == IF k \in DOMAIN d THEN Some(d[k]) ELSE None

\* the truth value of a str: "if partner_id:" is False for the empty string
Truthy(x) == x # ""

\* PartnerStore.get_by_api_key: Some(partner) or None
AnyKeyResolves(store, api_key) == DictGet(store.partners, "partner-001")
ActiveKeyResolves(store, api_key) ==
    LET partner_id == DictGet(store.api_key_index, api_key) IN
    IF partner_id # None /\ Truthy(Get(partner_id))
          /\ Get(partner_id) \in DOMAIN store.partners
          /\ store.partners[Get(partner_id)].is_active
    THEN DictGet(store.partners, Get(partner_id))
    ELSE None
get_by_api_key(store, api_key) ==
    LET partner_id == DictGet(store.api_key_index, api_key) IN
    IF partner_id # None /\ Truthy(Get(partner_id))
    THEN DictGet(store.partners, Get(partner_id))
    ELSE None

\* PartnerStore.deactivate_partner: the new _partners and the value returned
DeactivateByRemoval(store, partner_id) ==
    LET partner == DictGet(store.partners, partner_id) IN
    IF partner # None
    THEN [partners |-> [p \in DOMAIN store.partners \ {partner_id} |-> store.partners[p]],
          ret |-> TRUE]
    ELSE [partners |-> store.partners, ret |-> FALSE]
deactivate_partner(store, partner_id) ==
    LET partner == DictGet(store.partners, partner_id) IN
    IF partner # None
    THEN [partners |-> [store.partners EXCEPT ![partner_id].is_active = FALSE],
          ret |-> TRUE]
    ELSE [partners |-> store.partners, ret |-> FALSE]

\* PartnerStore._initialize_demo_partners
DemoPartners ==
    << [partner_id |-> "partner-001", name |-> "Premium Partner Inc.",
        allowed_services |-> {"users", "posts", "comments", "todos", "albums", "photos"},
        rate_limit |-> 100, api_key |-> "premium-key-001"],
       [partner_id |-> "partner-002", name |-> "Basic Partner Ltd.",
        allowed_services |-> {"users", "posts"},
        rate_limit |-> 30, api_key |-> "basic-key-002"],
       [partner_id |-> "partner-003", name |-> "Social Analytics Co.",
        allowed_services |-> {"posts", "comments"},
        rate_limit |-> 50, api_key |-> "social-key-003"] >>

RECURSIVE CreateAll(_, _)
CreateAll(store, ps) ==
    IF ps = <<>> THEN store
    ELSE CreateAll(create_partner(store, ps[1].partner_id, ps[1].name,
                                  ps[1].allowed_services, ps[1].rate_limit,
                                  ps[1].api_key),
                   Tail(ps))

\* PartnerStore.__init__
NewPartnerStore == CreateAll([partners |-> <<>>, api_key_index |-> <<>>], DemoPartners)

Store == [partners |-> partners, api_key_index |-> api_key_index]

(***************************************************************************)
(* SpecRegistry: direct calls of one PartnerStore                          *)
(***************************************************************************)
CreateIds      == {"partner-002", "partner-004", ""}
CreateKeys     == {Some("basic-key-002"), Some("new-key-004"), None}
CreateServices == {{"users", "comments"}}
DeactivateIds  == {"partner-002", "partner-004", "partner-999"}

RegCreate(partner_id, allowed_services, key) ==
    /\ nops < MaxOps
    /\ nops' = nops + 1
    /\ \E api_key \in IF key = None THEN GeneratedKeys \ DOMAIN api_key_index
                                 ELSE {Get(key)} :
        LET new == create_partner(Store, partner_id, "New Partner",
                                  allowed_services, 60, api_key) IN
        /\ partners' = new.partners
        /\ api_key_index' = new.api_key_index
        /\ bound' = (api_key :> IF api_key \in DOMAIN bound
                                 THEN [bound[api_key] EXCEPT !.ids = @ \cup {partner_id}]
                                 ELSE [first |-> partner_id, ids |-> {partner_id}])
                        @@ bound
        /\ last' = [op |-> "create_partner", id |-> partner_id, key |-> api_key,
                    explicit |-> key # None, raised |-> "none",
                    ret |-> new.partners[partner_id]]
        /\ UNCHANGED <<now, limiterVars, quota, deactivated, loggerVars, gatewayVars>>

RegDeactivate(partner_id) ==
    /\ nops < MaxOps
    /\ nops' = nops + 1
    /\ LET r == deactivate_partner(Store, partner_id) IN
        /\ partners' = r.partners
        /\ deactivated' =
              IF r.ret
              THEN deactivated \cup
                     {[id |-> partner_id, api_key |-> partners[partner_id].api_key]}
              ELSE deactivated
        /\ last' = [op |-> "deactivate_partner", id |-> partner_id, ret |-> r.ret]
    /\ UNCHANGED <<now, limiterVars, quota, api_key_index, bound, loggerVars, gatewayVars>>

InitRegistry ==
    /\ InitIdle
    /\ quota = <<>>
    /\ partners = NewPartnerStore.partners
    /\ api_key_index = NewPartnerStore.api_key_index
    /\ bound = [k \in DOMAIN NewPartnerStore.api_key_index |->
                    [first |-> NewPartnerStore.api_key_index[k],
                     ids   |-> {NewPartnerStore.api_key_index[k]}]]
    /\ deactivated = {}
    /\ task = <<>>

NextRegistry ==
    \/ \E id \in CreateIds, sv \in CreateServices, k \in CreateKeys : RegCreate(id, sv, k)
    \/ \E id \in DeactivateIds : RegDeactivate(id)

SpecRegistry == InitRegistry /\ [][NextRegistry]_vars

(***************************************************************************)
(* Claims about the registry                                               *)
(***************************************************************************)
\* the step is a create_partner call with an explicit key
ExplicitCreateStep ==
    /\ nops' = nops + 1
    /\ last'.op = "create_partner"
    /\ last'.explicit

\* C8: create_partner called with an explicit key that is already in the key
\* index fails with DuplicateKey and leaves the partner store and the key
\* index unchanged.
C8_DuplicateKey ==
    [][(ExplicitCreateStep /\ last'.key \in DOMAIN api_key_index)
          => /\ last'.raised = "DuplicateKey"
             /\ partners' = partners
             /\ api_key_index' = api_key_index]_vars

\* C9: after any sequence of create_partner and deactivate_partner calls every
\* indexed key k resolves to a partner whose api_key is k and whose id is the
\* one k was created with, no two distinct keys resolve to the same partner
\* id, and a key once bound to an id never resolves to another id.
C9_Bijection ==
    /\ \A k \in DOMAIN api_key_index :
          LET r == get_by_api_key(Store, k) IN
          /\ r # None
          /\ Get(r).api_key = k
          /\ Get(r).id = bound[k].first
          /\ bound[k].ids = {bound[k].first}
    /\ \A k1, k2 \in DOMAIN api_key_index :
          LET r1 == get_by_api_key(Store, k1)
              r2 == get_by_api_key(Store, k2) IN
          (k1 # k2 /\ r1 # None /\ r2 # None) => Get(r1).id # Get(r2).id

\* C10: once deactivate_partner(id) has returned True, in every later state
\* can_access of that partner is False for every service and get_by_api_key
\* with the partner's key still returns its record.
C10_Deactivated ==
    \A d \in deactivated :
        /\ d.id \in DOMAIN partners
        /\ \A s \in Service : ~can_access(partners[d.id], s)
        /\ get_by_api_key(Store, d.api_key) = Some(partners[d.id])

(***************************************************************************)
(* logging_service.py                                                      *)
(***************************************************************************)
max_logs == 1       \* RequestLogger(max_logs): the capacity of the deque

\* f"{n:08d}"
RECURSIVE ZeroPad8(_)
ZeroPad8(s) == IF Len(s) >= 8 THEN s ELSE ZeroPad8("0" \o s)

\* f"req-{self._counter:08d}"
LogId(n) == "req-" \o ZeroPad8(ToString(n))

\* deque(maxlen = n).append
DequeKeepOldest(d, x, n) == IF Len(d) >= n THEN d ELSE Append(d, x)
DequeUnbounded(d, x, n) == Append(d, x)
DequeAppend(d, x, n) ==
    LET a == Append(d, x) IN IF Len(a) > n THEN Tail(a) ELSE a

\* RequestLogger.log_request: the new _logs and _counter and the RequestLog
\* made.  timestamp, method, path, response_time_ms and client_ip are stored in
\* the entry and do not influence any other field or any later call of the
\* gateway; they are left out.
CounterNotAdvanced(lg, cnt, partner_id, partner_name, service, status_code, error_message) ==
    LET log == [id |-> LogId(cnt + 1),
                partner_id |-> partner_id, partner_name |-> partner_name,
                service |-> service, status_code |-> status_code,
                error_message |-> error_message] IN
    [logs |-> DequeAppend(lg, log, max_logs), counter |-> cnt, log |-> log]
log_request(lg, cnt, partner_id, partner_name, service, status_code, error_message) ==
    LET log == [id |-> LogId(cnt + 1),
                partner_id |-> partner_id, partner_name |-> partner_name,
                service |-> service, status_code |-> status_code,
                error_message |-> error_message] IN
    [logs |-> DequeAppend(lg, log, max_logs), counter |-> cnt + 1, log |-> log]

(***************************************************************************)
(* gateway.py: request tasks on one event loop.                            *)
(*                                                                         *)
(* A task runs from one await to the next without another task running in  *)
(* between; `running` is the task that holds the loop.  The positions of a  *)
(* task:                                                                   *)
(*   idle        not received yet                                          *)
(*   is_allowed  get_partner has returned; is_allowed is entered           *)
(*   limit       is_allowed has pruned the list (line 51)                  *)
(*   record      is_allowed has found the list under the limit (line 54)   *)
(*   access      check_rate_limit has returned                             *)
(*   body        suspended at "await request.body()"                       *)
(*   backend     suspended at "await client.request(...)"                  *)
(*   done        the response is sent                                      *)
(***************************************************************************)
Tasks == 1 .. MaxTasks

\* the awaits of a request: gateway.py lines 178 and 182
SuspendsAnywhere(pc) == TRUE
Suspends(pc) == pc \in {"body", "backend"}

\* who holds the loop after a task has moved to pc
HolderKeepsLoop(r, pc) == IF Suspends(pc) THEN NoTask ELSE r
Holder(r, pc) == IF pc = "done" \/ Suspends(pc) THEN NoTask ELSE r

CanRun(r) == running \in {NoTask, r}

\* the store the gateway runs with: the demo partners, their quotas of 100,
\* 30 and 50 requests per minute replaced by quotas the model can use up
GatewayPartners ==
    [i \in 1 .. Len(DemoPartners) |->
        [DemoPartners[i] EXCEPT !.rate_limit = IF i = 1 THEN MaxQuota ELSE 1]]

GatewayStore == CreateAll(NewPartnerStore, GatewayPartners)

RequestKeys     == {None, Some("invalid-key-999"), Some("premium-key-001"),
                    Some("basic-key-002")}
RequestServices == {"users", "comments"}
BackendStatuses == {200, 403}
TransportErrors == {""}       \* str(e) of the httpx.RequestError

\* 0 s, 1 s and 60.5 s: at 60.5 s the timestamp 0 s has left the window and
\* the timestamp 1 s leaves it in half a second
GatewayInstants == {0, 2, W + 1}
GatewayDeactivateIds == {"partner-002"}

IdleTask ==
    [pc |-> "idle", key |-> None, service |-> "", partner |-> None,
     current_time |-> 0,        \* the local of is_allowed, 0 outside it
     status |-> 0, rejected_by |-> "none", outcome |-> "none",
     remaining |-> None, reset |-> None,
     gate |-> [resolved |-> FALSE, active |-> FALSE, allowed |-> FALSE,
               authorized |-> FALSE],
     calls |-> 0]

\* raise HTTPException(status_code) in a gate
RejectAlways403(t, status_code, gate_name) ==
    [t EXCEPT !.pc = "done", !.status = 403, !.rejected_by = gate_name]
Reject(t, status_code, gate_name) ==
    [t EXCEPT !.pc = "done", !.status = status_code, !.rejected_by = gate_name]

\* get_partner: the task is received with its X-API-Key header and its route.
\* gate.resolved and gate.active record what was true of the key when it ran.
GetPartner(r, key, service) ==
    /\ task[r].pc = "idle"
    /\ \A q \in Tasks : q < r => task[q].pc # "idle"
    /\ CanRun(r)
    /\ LET known   == /\ key # None
                      /\ Get(key) \in DOMAIN api_key_index
                      /\ api_key_index[Get(key)] \in DOMAIN partners
           active  == known /\ partners[api_key_index[Get(key)]].is_active
           t0 == [task[r] EXCEPT !.key = key, !.service = service,
                                 !.gate.resolved = known, !.gate.active = active]
           partner == IF key = None THEN None ELSE get_by_api_key(Store, Get(key))
           t1 == IF key = None THEN Reject(t0, 401, "identity")
                 ELSE IF partner = None THEN Reject(t0, 401, "identity")
                 ELSE IF ~Get(partner).is_active THEN Reject(t0, 403, "identity")
                 ELSE [t0 EXCEPT !.partner = Some(Get(partner).id),
                                 !.pc = "is_allowed"]
       IN /\ task' = [task EXCEPT ![r] = t1]
          /\ running' = Holder(r, t1.pc)
    /\ UNCHANGED <<now, limiterVars, quota, last, nops, registryVars, loggerVars>>

\* is_allowed, lines 46-51: read the clock, prune the partner's list
IsAllowedPrune(r) ==
    /\ task[r].pc = "is_allowed"
    /\ CanRun(r)
    /\ LET p == Get(task[r].partner) IN
        /\ requests' = (p :> ValidTimestamps(State(requests, p), now)) @@ requests
        /\ task' = [task EXCEPT ![r].current_time = now, ![r].pc = "limit"]
        /\ running' = Holder(r, "limit")
    /\ UNCHANGED <<now, calllog, quota, last, nops, registryVars, loggerVars>>

\* is_allowed, lines 54-55: count the list; over the limit it returns False
\* and check_rate_limit raises 429 with the remaining count and the reset time.
\* gate.allowed records whether the partner was under its quota when counted.
CheckRateLimit(r) ==
    /\ task[r].pc = "limit"
    /\ CanRun(r)
    /\ LET p  == Get(task[r].partner)
           rl == partners[p].rate_limit
           ts == State(requests, p)
       IN IF AtLimit(Len(ts), rl)
          THEN /\ calllog' = Append(calllog, [p |-> p, t |-> task[r].current_time,
                                              max |-> rl, ok |-> FALSE])
               /\ task' = [task EXCEPT ![r] =
                              [Reject(@, 429, "rate") EXCEPT
                                  !.gate.allowed = Len(ts) < rl,
                                  !.current_time = 0,
                                  !.remaining = Some(get_remaining(ts, now, rl)),
                                  !.reset = Some(get_reset_time(ts, now))]]
               /\ running' = Holder(r, "done")
          ELSE /\ calllog' = calllog
               /\ task' = [task EXCEPT ![r].gate.allowed = Len(ts) < rl,
                                       ![r].pc = "record"]
               /\ running' = Holder(r, "record")
    /\ UNCHANGED <<now, requests, quota, last, nops, registryVars, loggerVars>>

\* is_allowed, lines 57-59: append current_time and return True
RecordRequest(r) ==
    /\ task[r].pc = "record"
    /\ CanRun(r)
    /\ LET p  == Get(task[r].partner)
           ct == task[r].current_time
       IN /\ requests' = (p :> Append(State(requests, p), ct)) @@ requests
          /\ calllog' = Append(calllog, [p |-> p, t |-> ct,
                                         max |-> partners[p].rate_limit, ok |-> TRUE])
    /\ task' = [task EXCEPT ![r].current_time = 0, ![r].pc = "access"]
    /\ running' = Holder(r, "access")
    /\ UNCHANGED <<now, quota, last, nops, registryVars, loggerVars>>

\* _check_access, and proxy_to_backend up to "await request.body()".
\* gate.authorized records whether the partner was active with the service in
\* its allowed set.
CheckAccess(r) ==
    /\ task[r].pc = "access"
    /\ CanRun(r)
    /\ LET partner == partners[Get(task[r].partner)]
           truly   == partner.is_active /\ task[r].service \in partner.allowed_services
           t1 == IF ~can_access(partner, task[r].service)
                 THEN Reject(task[r], 403, "access")
                 ELSE [task[r] EXCEPT !.pc = "body"]
       IN /\ task' = [task EXCEPT ![r] = [t1 EXCEPT !.gate.authorized = truly]]
          /\ running' = Holder(r, t1.pc)
    /\ UNCHANGED <<now, limiterVars, quota, last, nops, registryVars, loggerVars>>

\* the body is read; the request is sent to the backend: "await client.request"
SendToBackend(r) ==
    /\ task[r].pc = "body"
    /\ CanRun(r)
    /\ task' = [task EXCEPT ![r].pc = "backend", ![r].calls = @ + 1]
    /\ running' = Holder(r, "backend")
    /\ UNCHANGED <<now, limiterVars, quota, last, nops, registryVars, loggerVars>>

\* the end of proxy_to_backend: the entry is logged, the response is sent
RetryOnFailure(r, status_code, error_message, outcome, remaining) ==
    IF outcome # "response" /\ task[r].calls < 2
    THEN /\ task' = [task EXCEPT ![r].pc = "body"]
         /\ running' = Holder(r, "body")
         /\ UNCHANGED <<now, limiterVars, quota, last, nops, registryVars, loggerVars>>
    ELSE LET partner == partners[Get(task[r].partner)]
             lg == log_request(logs, counter, partner.id, partner.name,
                               task[r].service, status_code, error_message)
         IN /\ logs' = lg.logs
            /\ counter' = lg.counter
            /\ history' = Append(history, [log |-> lg.log, task |-> r])
            /\ task' = [task EXCEPT ![r].pc = "done", ![r].status = status_code,
                                    ![r].outcome = outcome, ![r].remaining = remaining]
            /\ running' = Holder(r, "done")
            /\ UNCHANGED <<now, limiterVars, quota, last, nops, registryVars>>
Finish(r, status_code, error_message, outcome, remaining) ==
    LET partner == partners[Get(task[r].partner)]
        lg == log_request(logs, counter, partner.id, partner.name,
                          task[r].service, status_code, error_message)
    IN /\ logs' = lg.logs
       /\ counter' = lg.counter
       /\ history' = Append(history, [log |-> lg.log, task |-> r])
       /\ task' = [task EXCEPT ![r].pc = "done", ![r].status = status_code,
                               ![r].outcome = outcome, ![r].remaining = remaining]
       /\ running' = Holder(r, "done")
       /\ UNCHANGED <<now, limiterVars, quota, last, nops, registryVars>>

\* lines 189-217: the backend has answered with status_code
BackendResponds(r, status_code) ==
    /\ task[r].pc = "backend"
    /\ CanRun(r)
    /\ LET partner == partners[Get(task[r].partner)] IN
        Finish(r, status_code, None, "response",
               Some(get_remaining(State(requests, partner.id), now, partner.rate_limit)))

\* lines 219-233: except httpx.TimeoutException
BackendTimeout(r) ==
    /\ task[r].pc = "backend"
    /\ CanRun(r)
    /\ Finish(r, 504, Some("Backend service timeout"), "timeout", None)

\* f"Backend service error: {str(e)}"
BareErrorMessage(e) == e
RequestErrorMessage(e) == "Backend service error: " \o e

\* lines 235-249: except httpx.RequestError as e
BackendError(r, e) ==
    /\ task[r].pc = "backend"
    /\ CanRun(r)
    /\ Finish(r, 502, Some(RequestErrorMessage(e)), "error", None)

\* partner_store.deactivate_partner, called between two tasks' steps
Deactivate(partner_id) ==
    /\ running = NoTask
    /\ LET r == deactivate_partner(Store, partner_id) IN
        /\ r.ret
        /\ partners' = r.partners
        /\ deactivated' = deactivated \cup
              {[id |-> partner_id, api_key |-> partners[partner_id].api_key]}
    /\ UNCHANGED <<now, limiterVars, quota, last, nops, api_key_index, bound,
                   loggerVars, gatewayVars>>

Init ==
    /\ InitIdle
    /\ quota = <<>>
    /\ partners = GatewayStore.partners
    /\ api_key_index = GatewayStore.api_key_index
    /\ bound = <<>>
    /\ deactivated = {}
    /\ task = [r \in Tasks |-> IdleTask]

GatewayTick == Advance(GatewayInstants)

Next ==
    \/ GatewayTick
    \/ \E r \in Tasks, k \in RequestKeys, s \in RequestServices : GetPartner(r, k, s)
    \/ \E r \in Tasks : IsAllowedPrune(r)
    \/ \E r \in Tasks : CheckRateLimit(r)
    \/ \E r \in Tasks : RecordRequest(r)
    \/ \E r \in Tasks : CheckAccess(r)
    \/ \E r \in Tasks : SendToBackend(r)
    \/ \E r \in Tasks, s \in BackendStatuses : BackendResponds(r, s)
    \/ \E r \in Tasks : BackendTimeout(r)
    \/ \E r \in Tasks, e \in TransportErrors : BackendError(r, e)
    \/ \E id \in GatewayDeactivateIds : Deactivate(id)

Spec == Init /\ [][Next]_vars

(***************************************************************************)
(* Claims about the gateway                                                *)
(***************************************************************************)
\* the audit entries written for task r, evicted or not
EntriesOf(r) == SelectSeq(history, LAMBDA h : h.task = r)

\* the task was forwarded and its backend call has ended
Forwarded(r) == task[r].pc = "done" /\ task[r].outcome # "none"

\* the task is inside is_allowed, between the pruning and the append
InIsAllowed(r) == task[r].pc \in {"limit", "record"}

\* C2: under concurrent requests a task's prune / count / append sequence of
\* is_allowed is never interleaved with another task's (tasks give up the
\* event loop only at the body read and at the backend call), and so for every
\* partner the is_allowed calls that returned True in any window (e - W, e]
\* number at most its quota: when one slot remains, at most one of several
\* concurrent requests is admitted.
C2_Serialized ==
    [](/\ \A r1, r2 \in Tasks : (InIsAllowed(r1) /\ InIsAllowed(r2)) => r1 = r2
       /\ \A p \in DOMAIN partners : \A e \in GatewayInstants :
             AdmittedIn(p, e) <= partners[p].rate_limit)

\* two requests of a partner with quota 1 in one window: the first is admitted
\* and still waits for the backend, the second is rejected with 429
C2_Witness ==
    \E r1, r2 \in Tasks :
        /\ task[r1].partner = task[r2].partner /\ task[r1].partner # None
        /\ partners[Get(task[r1].partner)].rate_limit = 1
        /\ task[r1].pc = "backend"
        /\ task[r2].pc = "done" /\ task[r2].status = 429
        /\ AdmittedIn(Get(task[r1].partner), now) = 1

\* C4: a backend call is issued for a request only if its key was present and
\* resolved to a partner, the partner was active, is_allowed returned True
\* with the partner under its quota, and the partner was active with the
\* service in its allowed set; a request rejected by the access gate was not
\* so authorized; a rejected request never reaches the backend.
C4_OnlyGatedReachBackend ==
    \A r \in Tasks :
        /\ task[r].calls > 0 =>
              /\ task[r].key # None
              /\ task[r].gate.resolved /\ task[r].gate.active
              /\ task[r].gate.allowed /\ task[r].gate.authorized
              /\ task[r].service \in partners[Get(task[r].partner)].allowed_services
              /\ task[r].rejected_by = "none"
        /\ task[r].rejected_by = "access" => ~task[r].gate.authorized
        /\ task[r].pc \in {"backend", "done"} /\ task[r].rejected_by = "none"
              => task[r].calls > 0

\* a request has reached the backend while another was turned away at the
\* access gate
C4_Witness ==
    \E r1, r2 \in Tasks :
        /\ task[r1].calls > 0
        /\ task[r2].rejected_by = "access" /\ task[r2].status = 403

\* the task was turned away by a gate, or one of the gates' conditions did
\* not hold for it
FailedAGate(r) ==
    /\ task[r].pc = "done"
    /\ \/ task[r].rejected_by # "none"
       \/ ~task[r].gate.resolved \/ ~task[r].gate.active
       \/ ~task[r].gate.allowed \/ ~task[r].gate.authorized

\* a step that changes the audit log is the end of proxy_to_backend for a
\* task that waited for the backend
OnlyProxyLogs ==
    (logs' # logs \/ counter' # counter \/ history' # history)
        => \E r \in Tasks : /\ task[r].pc = "backend"
                            /\ task'[r].pc = "done"
                            /\ task'[r].rejected_by = "none"

\* a step that ends a task at a gate leaves the audit log and its counter alone
RejectionKeepsLog ==
    \A r \in Tasks :
        (task[r].pc # "done" /\ task'[r].pc = "done" /\ task'[r].rejected_by # "none")
            => (logs' = logs /\ counter' = counter /\ history' = history)

\* C5: a request rejected at the identity, rate-limit or authorization gate
\* (401, 403, 429) never adds an audit entry and never advances the sequence
\* counter; across any interleaving the audit log changes only at the end of
\* proxy_to_backend.
C5_RejectedNotLogged ==
    /\ [](\A r \in Tasks : FailedAGate(r) => EntriesOf(r) = <<>>)
    /\ [](counter = Cardinality({r \in Tasks : Forwarded(r)}))
    /\ [][OnlyProxyLogs /\ RejectionKeepsLog]_vars

\* one request was forwarded and logged, another was rejected at a gate
C5_Witness ==
    \E r1, r2 \in Tasks :
        /\ Forwarded(r1) /\ counter = 1
        /\ task[r2].pc = "done" /\ task[r2].status \in {401, 403, 429}
        /\ task[r2].rejected_by # "none"

\* the RequestLogs ever appended, in order
Appended == [i \in 1 .. Len(history) |-> history[i].log]

\* the last n elements of a sequence
LastN(q, n) == SubSeq(q, Len(q) - n + 1, Len(q))

\* a step changes the retained entries only by appending one entry at the
\* end, dropping the oldest entry when the log is full
AppendOrEvict ==
    \/ logs' = logs
    \/ /\ Len(logs') >= 1
       /\ \/ logs' = Append(logs, logs'[Len(logs')])
          \/ /\ Len(logs) = max_logs
             /\ logs' = Append(Tail(logs), logs'[Len(logs')])

\* C6: every forwarded attempt (backend response, timeout or other transport
\* failure) has exactly one audit entry, whose status code is the status
\* returned to the caller and whose error message is None iff the backend
\* responded; a request not (yet) through proxy_to_backend has none; the
\* retained entries are the newest of the entries ever appended, unchanged,
\* and an entry leaves the log only as the oldest one when a new one arrives.
C6_OneEntryPerAttempt ==
    /\ [](\A r \in Tasks :
            IF Forwarded(r)
            THEN /\ Len(EntriesOf(r)) = 1
                 /\ EntriesOf(r)[1].log.status_code = task[r].status
                 /\ (EntriesOf(r)[1].log.error_message = None)
                        <=> (task[r].outcome = "response")
            ELSE EntriesOf(r) = <<>>)
    /\ [](/\ Len(logs) = IF Len(history) <= max_logs THEN Len(history) ELSE max_logs
          /\ logs = LastN(Appended, Len(logs)))
    /\ [][AppendOrEvict]_vars

\* more attempts were logged than the log holds: the oldest entry is evicted
C6_Witness ==
    /\ Len(history) > max_logs
    /\ Len(logs) = max_logs
    /\ \A r \in Tasks : Forwarded(r)
    /\ \E r \in Tasks : task[r].outcome = "response"
    /\ \E r \in Tasks : task[r].outcome # "response"

\* the step ends task r with a timeout or a transport failure
FailureStep(r) ==
    /\ task[r].pc = "backend"
    /\ task'[r].pc = "done"
    /\ task'[r].outcome \in {"timeout", "error"}

\* C7: a backend timeout gives status 504 and exactly one new audit entry with
\* status 504 and a non-empty error message; any other transport failure gives
\* 502 and exactly one new entry with status 502 and a non-empty error
\* message; the step leaves every rate window, the partner store and the key
\* index as they were.
C7_BackendFailure ==
    /\ [](\A r \in Tasks :
            task[r].outcome \in {"timeout", "error"} =>
                /\ task[r].status = IF task[r].outcome = "timeout" THEN 504 ELSE 502
                /\ Len(EntriesOf(r)) = 1
                /\ EntriesOf(r)[1].log.status_code = task[r].status
                /\ EntriesOf(r)[1].log.error_message # None
                /\ Get(EntriesOf(r)[1].log.error_message) # "")
    /\ [][\A r \in Tasks :
            FailureStep(r) =>
                /\ Len(history') = Len(history) + 1
                /\ history'[Len(history')].task = r
                /\ counter' = counter + 1
                /\ logs'[Len(logs')] = history'[Len(history')].log
                /\ requests' = requests
                /\ partners' = partners
                /\ api_key_index' = api_key_index]_vars

\* one request has timed out and another has failed in transport
C7_Witness ==
    \E r1, r2 \in Tasks :
        /\ task[r1].outcome = "timeout" /\ task[r1].status = 504
        /\ task[r2].outcome = "error" /\ task[r2].status = 502

\* the task has been turned away by get_partner
IdentityRejected(r) == task[r].rejected_by = "identity"

\* C11: a request without a key header gets 401; a request whose key is not
\* in the index gets 401; a request whose key resolves to a deactivated
\* partner gets 403; in the three cases the step that rejects it records no
\* timestamp, and the request never enters the rate limiter and is never sent
\* to the backend.
C11_IdentityGate ==
    /\ [](\A r \in Tasks : task[r].pc # "idle" =>
            /\ task[r].key = None
                  => (task[r].status = 401 /\ IdentityRejected(r))
            /\ (task[r].key # None /\ Get(task[r].key) \notin DOMAIN api_key_index)
                  => (task[r].status = 401 /\ IdentityRejected(r))
            /\ (task[r].gate.resolved /\ ~task[r].gate.active)
                  => (task[r].status = 403 /\ IdentityRejected(r))
            /\ IdentityRejected(r) =>
                  /\ task[r].pc = "done"
                  /\ task[r].partner = None
                  /\ task[r].calls = 0
                  /\ ~task[r].gate.allowed)
    /\ [][\A r \in Tasks : task'[r].rejected_by = "identity" =>
            IF task[r].pc = "idle"
            THEN requests' = requests /\ calllog' = calllog
            ELSE task'[r] = task[r]]_vars

\* one request was sent with a key that is not indexed, another with the key
\* of a partner deactivated before it arrived
C11_Witness ==
    \E r1, r2 \in Tasks :
        /\ task[r1].key = Some("invalid-key-999") /\ task[r1].status = 401
        /\ task[r2].gate.resolved /\ ~task[r2].gate.active
        /\ task[r2].status = 403 /\ task[r2].calls = 0

\* the task's key resolved to a partner that was active when the task arrived
\* and is active still
OfActivePartner(r) ==
    /\ task[r].pc = "done"
    /\ task[r].gate.active
    /\ partners[api_key_index[Get(task[r].key)]].is_active

AllowedServicesOf(r) == partners[api_key_index[Get(task[r].key)]].allowed_services

\* C12 as claimed: whatever the partner's rate window holds, a request of an
\* active partner for a service outside its allowed set ends with 403 and a
\* request for a service in the set is forwarded.
C12_Original ==
    \A r \in Tasks : OfActivePartner(r) =>
        IF task[r].service \in AllowedServicesOf(r)
        THEN task[r].calls > 0
        ELSE task[r].status = 403

\* C12, amended: the rate check comes first.  A request of an active partner
\* for which is_allowed returned True ends with 403 at the access gate,
\* without a backend call, when its service is outside the partner's allowed
\* set, and is forwarded when the service is in the set; a request for which
\* is_allowed returned False ends with 429 whichever service it asks for.
C12_AccessAfterRateCheck ==
    \A r \in Tasks : OfActivePartner(r) =>
        IF task[r].gate.allowed
        THEN IF task[r].service \in AllowedServicesOf(r)
             THEN task[r].calls > 0 /\ task[r].rejected_by = "none"
             ELSE /\ task[r].status = 403 /\ task[r].rejected_by = "access"
                  /\ task[r].calls = 0
        ELSE task[r].status = 429 /\ task[r].rejected_by = "rate"
                /\ task[r].calls = 0

\* one partner, its window filled by a request that was denied at the access
\* gate, and a later request of it for an allowed service that was forwarded
C12_Witness ==
    \E r1, r2 \in Tasks :
        /\ OfActivePartner(r1) /\ OfActivePartner(r2)
        /\ task[r1].key = task[r2].key
        /\ task[r1].status = 403 /\ task[r1].rejected_by = "access"
        /\ task[r1].service \notin AllowedServicesOf(r1)
        /\ task[r2].calls > 0 /\ task[r2].service \in AllowedServicesOf(r2)
        /\ Len(State(requests, Get(task[r1].partner))) >= 1

\* the tasks of partner p for which is_allowed has returned True
AdmittedTasks(p) ==
    {r \in Tasks : task[r].partner = Some(p) /\ task[r].gate.allowed}

\* every other request of partner p has completed, and every request of p
\* admitted so far is still inside the window
AloneInOneWindow(r, p) ==
    /\ \A o \in Tasks \ {r} : task[o].partner = Some(p) => task[o].pc = "done"
    /\ \A i \in 1 .. Len(calllog) :
          (calllog[i].p = p /\ calllog[i].ok) => calllog[i].t > now - W

\* the backend's response to task r is passed on
ResponseStep(r) ==
    /\ task[r].pc = "backend"
    /\ task'[r].pc = "done"
    /\ task'[r].outcome = "response"

\* C13: for a partner with quota q whose requests run one after another
\* inside one window, the response to the k-th admitted request carries
\* X-RateLimit-Remaining = q - k, from q - 1 down to 0; a request is admitted
\* while fewer than q requests were admitted in its window, and the request
\* that follows q admitted ones in the window gets 429 and leaves the audit
\* log and its counter as they were.
C13_RemainingCountsDown ==
    /\ [][\A r \in Tasks : ResponseStep(r) =>
            LET p == Get(task[r].partner)
                q == partners[p].rate_limit
                k == Cardinality(AdmittedTasks(p))
            IN AloneInOneWindow(r, p) =>
                  /\ 1 <= k /\ k <= q
                  /\ task'[r].remaining = Some(q - k)]_vars
    /\ [][\A r \in Tasks : (task[r].pc = "limit" /\ task'[r].pc # "limit") =>
            LET p == Get(task[r].partner)
                q == partners[p].rate_limit
            IN IF AdmittedIn(p, task[r].current_time) >= q
               THEN /\ task'[r].pc = "done" /\ task'[r].status = 429
                    /\ logs' = logs /\ counter' = counter /\ history' = history
               ELSE task'[r].pc = "record"]_vars
    /\ [](\A r \in Tasks : task[r].status = 429 =>
            /\ task[r].rejected_by = "rate"
            /\ EntriesOf(r) = <<>>
            /\ task[r].calls = 0)

\* a partner with quota 2: the responses to its first and second request
\* carried X-RateLimit-Remaining 1 and 0
C13_Witness ==
    \E r1, r2 \in Tasks :
        /\ task[r1].partner = task[r2].partner /\ task[r1].partner # None
        /\ partners[Get(task[r1].partner)].rate_limit = 2
        /\ task[r1].outcome = "response" /\ task[r1].remaining = Some(1)
        /\ task[r2].outcome = "response" /\ task[r2].remaining = Some(0)

\* C14: every 429 response of the rate check carries Retry-After and
\* X-RateLimit-Reset (both str(reset_time)) strictly greater than 0, at every
\* arrival time of the rejected request, also when the oldest stored timestamp
\* leaves the window in less than a second.
C14_RetryAfterPositive ==
    \A r \in Tasks : task[r].status = 429 =>
        /\ task[r].reset # None
        /\ Get(task[r].reset) > 0

(***************************************************************************)
(* More claims about the rate limiter                                      *)
(***************************************************************************)
\* the step is a call is_allowed(p, quota[p]) that returned True
AllowedStep(p) ==
    /\ Len(calllog') = Len(calllog) + 1
    /\ calllog'[Len(calllog')].p = p
    /\ calllog'[Len(calllog')].ok

\* C15: immediately after is_allowed(p, q) has returned True, get_remaining(p,
\* q) is one less than it was immediately before the call, whatever list is
\* stored for p (timestamps that have left the window included) and whatever
\* the time of the call.
C15_RemainingDropsByOne ==
    [][\A p \in LimiterIds : AllowedStep(p) =>
          get_remaining(State(requests', p), now', quota[p])
              = get_remaining(State(requests, p), now, quota[p]) - 1]_vars

\* is_allowed has just returned True for a partner that was admitted before,
\* in a window that has passed since
C15_Witness ==
    \E p \in LimiterIds :
        /\ Len(calllog) >= 2
        /\ calllog[Len(calllog)] = [p |-> p, t |-> now, max |-> quota[p], ok |-> TRUE]
        /\ \E i \in 1 .. Len(calllog) - 1 :
              calllog[i].p = p /\ calllog[i].ok /\ calllog[i].t <= now - W
        /\ get_remaining(State(requests, p), now, quota[p]) = quota[p] - 1

(***************************************************************************)
(* logging_service.py: the reads, and SpecLogger: direct calls of one      *)
(* RequestLogger                                                           *)
(***************************************************************************)
MaxAppends == 3     \* log_request calls in a behaviour of SpecLogger
MaxLimit   == 2     \* the largest limit passed to the reads

\* l[-n:] of a Python list: -0 is 0, so l[-0:] is the whole list
TailSlice(l, n) ==
    IF n = 0 THEN l
    ELSE IF n > 0 THEN (IF n >= Len(l) THEN l ELSE SubSeq(l, Len(l) - n + 1, Len(l)))
    ELSE SubSeq(l, (-n) + 1, Len(l))

\* RequestLogger.get_recent_logs
get_recent_logs(lg, limit) == TailSlice(lg, limit)

\* RequestLogger.get_logs_by_partner
get_logs_by_partner(lg, partner_id, limit) ==
    LET partner_logs == SelectSeq(lg, LAMBDA log : log.partner_id = partner_id)
    IN TailSlice(partner_logs, limit)

\* the dict built by "d[k] = d.get(k, 0) + 1" over the keys of the entries
CountBy(keys) ==
    [k \in {keys[i] : i \in 1 .. Len(keys)} |->
        Cardinality({i \in 1 .. Len(keys) : keys[i] = k})]

\* RequestLogger.get_stats.  On a log that is not empty the code also returns
\* avg_response_time_ms, the rounded mean of the entries' response_time_ms,
\* which the entries of this model leave out.
ErrorsFrom500(status_code) == status_code >= 500
IsError(status_code) == status_code >= 400
get_stats(lg) ==
    IF lg = <<>>
    THEN [total_requests |-> 0, requests_by_service |-> <<>>,
          requests_by_partner |-> <<>>, error_count |-> 0,
          avg_response_time_ms |-> 0]
    ELSE [total_requests |-> Len(lg),
          requests_by_service |-> CountBy([i \in 1 .. Len(lg) |-> lg[i].service]),
          requests_by_partner |-> CountBy([i \in 1 .. Len(lg) |-> lg[i].partner_name]),
          error_count |-> Cardinality({i \in 1 .. Len(lg) : IsError(lg[i].status_code)})]

\* the callers of log_request: the partner's id and name, the service, the
\* status code; the error message is the one proxy_to_backend passes
LoggedPartners == {<<"partner-001", "Premium Partner Inc.">>,
                   <<"partner-002", "Basic Partner Ltd.">>}
LoggedServices == {"users", "posts"}
LoggedStatuses == {200, 404, 504}
ReadPartnerIds == {"partner-001", "partner-002", "partner-999"}

LogLogRequest(partner, service, status_code) ==
    /\ counter < MaxAppends
    /\ LET lg == log_request(logs, counter, partner[1], partner[2], service, status_code,
                             IF status_code = 504 THEN Some("Backend service timeout")
                             ELSE None)
       IN /\ logs' = lg.logs
          /\ counter' = lg.counter
          /\ history' = Append(history, [log |-> lg.log, task |-> NoTask])
    /\ last' = [op |-> "log_request"]
    /\ UNCHANGED <<now, limiterVars, quota, nops, registryVars, gatewayVars>>

LogGetRecentLogs(limit) ==
    /\ last' = [op |-> "get_recent_logs", limit |-> limit,
                ret |-> get_recent_logs(logs, limit)]
    /\ UNCHANGED <<now, limiterVars, quota, nops, registryVars, loggerVars, gatewayVars>>

LogGetLogsByPartner(partner_id, limit) ==
    /\ last' = [op |-> "get_logs_by_partner", partner_id |-> partner_id,
                limit |-> limit,
                ret |-> get_logs_by_partner(logs, partner_id, limit)]
    /\ UNCHANGED <<now, limiterVars, quota, nops, registryVars, loggerVars, gatewayVars>>

LogGetStats ==
    /\ last' = [op |-> "get_stats", ret |-> get_stats(logs)]
    /\ UNCHANGED <<now, limiterVars, quota, nops, registryVars, loggerVars, gatewayVars>>

InitLogger ==
    /\ InitIdle
    /\ quota = <<>>
    /\ partners = <<>>
    /\ api_key_index = <<>>
    /\ bound = <<>>
    /\ deactivated = {}
    /\ task = <<>>

NextLogger ==
    \/ \E partner \in LoggedPartners, s \in LoggedServices, c \in LoggedStatuses :
          LogLogRequest(partner, s, c)
    \/ \E limit \in 0 .. MaxLimit : LogGetRecentLogs(limit)
    \/ \E id \in ReadPartnerIds, limit \in 0 .. MaxLimit : LogGetLogsByPartner(id, limit)
    \/ LogGetStats

SpecLogger == InitLogger /\ [][NextLogger]_vars

(***************************************************************************)
(* Claims about the audit log                                              *)
(***************************************************************************)
Min(a, b) == IF a <= b THEN a ELSE b

MostRecent(q, n) == SubSeq(q, Len(q) - Min(n, Len(q)) + 1, Len(q))

\* C18: for every limit >= 0, get_recent_logs(limit) returns the min(limit,
\* size) most recent retained entries, oldest first, never more than limit;
\* get_logs_by_partner(id, limit) returns in the same way the last min(limit,
\* m) of the m retained entries of the partner, filtered before the tail is
\* taken.
C18_RecentLogs ==
    /\ last.op = "get_recent_logs" =>
          /\ last.ret = MostRecent(logs, last.limit)
          /\ Len(last.ret) <= last.limit
    /\ last.op = "get_logs_by_partner" =>
          LET mine == SelectSeq(logs, LAMBDA log : log.partner_id = last.partner_id)
          IN /\ last.ret = MostRecent(mine, last.limit)
             /\ Len(last.ret) <= last.limit

\* the sum of the values of a dict of counts
RECURSIVE SumOf(_)
SumOf(d) ==
    IF DOMAIN d = {} THEN 0
    ELSE LET k == CHOOSE x \in DOMAIN d : TRUE
         IN d[k] + SumOf([x \in DOMAIN d \ {k} |-> d[x]])

\* C19: in every state of the log get_stats agrees with the retained entries:
\* total_requests is their number, the counts by service and the counts by
\* partner name each sum to total_requests and count the entries of each
\* service and name, error_count is the number of entries with a status code
\* of 400 or more, and on an empty log every count and the average are 0.
C19_StatsConsistent ==
    last.op = "get_stats" =>
        LET st == last.ret IN
        /\ st.total_requests = Len(logs)
        /\ SumOf(st.requests_by_service) = st.total_requests
        /\ SumOf(st.requests_by_partner) = st.total_requests
        /\ \A i \in 1 .. Len(logs) :
              /\ logs[i].service \in DOMAIN st.requests_by_service
              /\ logs[i].partner_name \in DOMAIN st.requests_by_partner
        /\ st.error_count = Len(SelectSeq(logs, LAMBDA log : log.status_code > 399))
        /\ logs = <<>> =>
              /\ st.total_requests = 0 /\ st.error_count = 0
              /\ DOMAIN st.requests_by_service = {}
              /\ DOMAIN st.requests_by_partner = {}
              /\ st.avg_response_time_ms = 0

\* get_stats has been called on a full log whose newest entry is a 404, after
\* an entry was evicted
C19_Witness ==
    /\ last.op = "get_stats"
    /\ Len(history) > max_logs
    /\ logs[Len(logs)].status_code = 404
    /\ last.ret.error_count >= 1
    /\ last.ret.total_requests = max_logs

\* C20: an inbound request causes at most one backend call; after a timeout
\* or a transport failure it is finished with 504 or 502, no second call is
\* made for it, and nothing about a finished request changes any more.
C20_NoRetry ==
    /\ [](\A r \in Tasks :
            /\ task[r].calls <= 1
            /\ task[r].outcome \in {"timeout", "error"} =>
                  /\ task[r].pc = "done"
                  /\ task[r].calls = 1
                  /\ task[r].status \in {502, 504})
    /\ [][\A r \in Tasks :
            /\ task[r].pc = "done" => task'[r] = task[r]
            /\ task'[r].calls # task[r].calls =>
                  (task[r].calls = 0 /\ task[r].pc = "body")]_vars

\* a request has failed in transport after its one backend call, and a request
\* received after it has been answered by the backend
C20_Witness ==
    \E r1, r2 \in Tasks :
        /\ r1 < r2
        /\ task[r1].outcome = "error" /\ task[r1].calls = 1
        /\ history # <<>> /\ history[1].task = r1
        /\ task[r2].outcome = "response" /\ task[r2].calls = 1

(***************************************************************************)
(* SpecLive: the gateway with a fair event loop.  A task that is ready is  *)
(* run by the loop, and a backend call returns, fails or times out         *)
(* (httpx timeout, gateway.py line 181).                                   *)
(***************************************************************************)
TaskStep(r) ==
    \/ IsAllowedPrune(r)
    \/ CheckRateLimit(r)
    \/ RecordRequest(r)
    \/ CheckAccess(r)
    \/ SendToBackend(r)
    \/ \E s \in BackendStatuses : BackendResponds(r, s)
    \/ BackendTimeout(r)
    \/ \E e \in TransportErrors : BackendError(r, e)

SpecLive == Init /\ [][Next]_vars /\ \A r \in Tasks : WF_vars(TaskStep(r))

\* the statuses a response of the gateway can have
ResponseStatuses == {401, 403, 429, 502, 504} \cup BackendStatuses

\* C21: every request received ends with one response, whose status is 401,
\* 403, 429, the backend's status, 502 or 504, given that the backend call
\* returns, fails or times out; this holds for every request whatever happens
\* to the others, so the failure of one request does not keep another from
\* completing.
C21_EveryRequestCompletes ==
    /\ [](\A r \in Tasks :
            IF task[r].pc = "done" THEN task[r].status \in ResponseStatuses
            ELSE task[r].status = 0)
    /\ [][\A r \in Tasks : task[r].pc = "done" => task'[r] = task[r]]_vars
    /\ \A r \in Tasks : (task[r].pc # "idle") ~> (task[r].pc = "done")

\* the first request timed out while the second was in flight, and the second
\* has been answered by the backend after that
C21_Witness ==
    /\ task[1].outcome = "timeout" /\ task[1].status = 504
    /\ task[2].outcome = "response" /\ task[2].status \in BackendStatuses
    /\ Len(history) = 2 /\ history[1].task = 1 /\ history[2].task = 2

(***************************************************************************)
(* More claims about the partner store                                     *)
(***************************************************************************)
\* the step is a call of deactivate_partner
DeactivateStep == nops' # nops /\ last'.op = "deactivate_partner"

\* C22: deactivate_partner(id) returns True iff a record with that id exists;
\* when it returns False the store and the key index are unchanged; when it
\* returns True the only change is that partner's is_active, now False: no
\* record and no index entry is removed, by this or any other step, and no
\* other partner's record is modified.
C22_DeactivateFrame ==
    /\ [][DeactivateStep =>
            /\ last'.ret <=> (last'.id \in DOMAIN partners)
            /\ api_key_index' = api_key_index
            /\ IF last'.ret
               THEN partners' = [partners EXCEPT ![last'.id].is_active = FALSE]
               ELSE partners' = partners]_vars
    /\ [][/\ DOMAIN partners \subseteq DOMAIN partners'
          /\ DOMAIN api_key_index \subseteq DOMAIN api_key_index']_vars

\* a partner created after construction has been deactivated; the demo
\* partners are as they were
C22_Witness ==
    /\ last.op = "deactivate_partner" /\ last.ret
    /\ last.id = "partner-004"
    /\ ~partners["partner-004"].is_active
    /\ partners["partner-004"].api_key \in DOMAIN api_key_index
    /\ \A p \in DOMAIN NewPartnerStore.partners : partners[p].is_active

(***************************************************************************)
(* The outbound headers: gateway.py proxy_to_backend and proxy.py          *)
(* proxy_request (called by the routes of main.py), and SpecForwarder:     *)
(* both applied to the header lists of inbound requests                    *)
(***************************************************************************)
MaxHeaders == 2     \* the header lines of an inbound request

\* str.lower() on the header names that occur
Lower(name) ==
    CASE name \in {"X-API-Key", "x-api-key", "X-Api-Key"} -> "x-api-key"
      [] name \in {"Host", "host"} -> "host"
      [] name \in {"Content-Length", "content-length"} -> "content-length"
      [] name \in {"Transfer-Encoding", "transfer-encoding"} -> "transfer-encoding"
      [] name \in {"Accept", "accept"} -> "accept"

HeaderNames  == {"X-API-Key", "x-api-key", "X-Api-Key", "Host", "Content-Length",
                 "transfer-encoding", "Accept", "accept"}
HeaderValues == {"a", "b"}

\* request.headers.items(): the header lines in the order received
HeaderItems ==
    UNION {[1 .. n -> [name : HeaderNames, value : HeaderValues]] : n \in 0 .. MaxHeaders}

\* exclude_headers of proxy_to_backend and the default of proxy_request
gateway_exclude_headers == {"host", "content-length", "transfer-encoding", "x-api-key"}
proxy_exclude_headers   == {"host", "content-length", "transfer-encoding"}

\* {key: value for key, value in items if key.lower() not in exclude_headers}:
\* a later line with the same key replaces the earlier one
RECURSIVE forwarded_headers(_, _)
forwarded_headers(items, exclude_headers) ==
    IF items = <<>> THEN <<>>
    ELSE LET n    == Len(items)
             rest == forwarded_headers(SubSeq(items, 1, n - 1), exclude_headers)
         IN IF Lower(items[n].name) \notin exclude_headers
            THEN (items[n].name :> items[n].value) @@ rest
            ELSE rest

\* proxy_to_backend builds the outbound headers of a request
GatewayForward(items) ==
    /\ last' = [op |-> "proxy_to_backend", items |-> items,
                headers |-> forwarded_headers(items, gateway_exclude_headers)]
    /\ UNCHANGED <<now, limiterVars, quota, nops, registryVars, loggerVars, gatewayVars>>

\* proxy_request(request, backend_url), as the routes of main.py call it
ProxyForward(items) ==
    /\ last' = [op |-> "proxy_request", items |-> items,
                headers |-> forwarded_headers(items, proxy_exclude_headers)]
    /\ UNCHANGED <<now, limiterVars, quota, nops, registryVars, loggerVars, gatewayVars>>

NextForwarder ==
    \/ \E items \in HeaderItems : GatewayForward(items)
    \/ \E items \in HeaderItems : ProxyForward(items)

SpecForwarder == InitLogger /\ [][NextForwarder]_vars

\* C23: the outbound request never carries the caller's API-key header, nor
\* host, content-length or transfer-encoding, in whatever letter case the
\* inbound names are written; every other inbound header line is forwarded
\* with its value.
C23_HeadersFiltered ==
    last.op \in {"proxy_to_backend", "proxy_request"} =>
        /\ \A name \in DOMAIN last.headers :
              Lower(name) \notin {"x-api-key", "host", "content-length",
                                  "transfer-encoding"}
        /\ \A i \in 1 .. Len(last.items) :
              Lower(last.items[i].name) \notin {"x-api-key", "host", "content-length",
                                                "transfer-encoding"}
                  => /\ last.items[i].name \in DOMAIN last.headers
                     /\ last.headers[last.items[i].name] = last.items[i].value

(***************************************************************************)
(* Claims about the window of the rate limiter                             *)
(***************************************************************************)
\* how many of the timestamps ts are less than W old at time t
InWindowCount(ts, t) == Cardinality({i \in 1 .. Len(ts) : t - ts[i] < W})

\* the step is a call is_allowed(p, quota[p])
IsAllowedStep(p) ==
    /\ Len(calllog') = Len(calllog) + 1
    /\ calllog'[Len(calllog')].p = p

\* C24: a stored timestamp s counts against the quota in a call of is_allowed
\* or get_remaining at time t iff t - s < W; a timestamp exactly W old is
\* pruned and not counted.
C24_StrictWindow ==
    /\ [](\A p \in LimiterIds :
            get_remaining(State(requests, p), now, quota[p])
                = Max(0, quota[p] - InWindowCount(State(requests, p), now)))
    /\ [][\A p \in LimiterIds : IsAllowedStep(p) =>
            /\ calllog'[Len(calllog')].ok
                  <=> (InWindowCount(State(requests, p), now) < quota[p])
            /\ \A i \in 1 .. Len(requests'[p]) : now - requests'[p][i] < W
            /\ \A i \in 1 .. Len(State(requests, p)) :
                  (now - requests[p][i] < W)
                      => \E j \in 1 .. Len(requests'[p]) :
                            requests'[p][j] = requests[p][i]]_vars

\* a partner with quota 1 was admitted at 1 s and again at 61 s, exactly W
\* later: the timestamp 1 s was pruned and did not count
C24_Witness ==
    \E p \in LimiterIds :
        /\ quota[p] = 1
        /\ Len(calllog) >= 2
        /\ calllog[Len(calllog)] = [p |-> p, t |-> W + 2, max |-> 1, ok |-> TRUE]
        /\ \E i \in 1 .. Len(calllog) - 1 :
              calllog[i] = [p |-> p, t |-> 2, max |-> 1, ok |-> TRUE]
        /\ requests[p] = <<W + 2>>

\* C25: when is_allowed(p, q) returns False no timestamp is recorded: the
\* list stored for p afterwards is the list of the timestamps stored before
\* that were inside the window, in their order, and what is stored for every
\* other partner is unchanged.
C25_RejectionRecordsNothing ==
    [][\A p \in LimiterIds :
          (IsAllowedStep(p) /\ ~calllog'[Len(calllog')].ok) =>
              /\ requests'[p] = SelectSeq(State(requests, p), LAMBDA s : now - s < W)
              /\ DOMAIN requests' = DOMAIN requests \cup {p}
              /\ \A o \in DOMAIN requests \ {p} : requests'[o] = requests[o]]_vars

\* a partner with a quota of at least 1 has just been rejected while another
\* partner has timestamps stored
C25_Witness ==
    \E p, o \in LimiterIds :
        /\ p # o
        /\ quota[p] >= 1
        /\ calllog # <<>>
        /\ calllog[Len(calllog)].p = p /\ ~calllog[Len(calllog)].ok
        /\ Len(State(requests, p)) = quota[p]
        /\ State(requests, o) # <<>>

(***************************************************************************)
(* Claims about the order of the gates                                     *)
(***************************************************************************)
\* the moves of a request through get_partner, is_allowed (three positions),
\* _check_access and proxy_to_backend
GateOrder ==
    {<<"idle", "done">>, <<"idle", "is_allowed">>, <<"is_allowed", "limit">>,
     <<"limit", "done">>, <<"limit", "record">>, <<"record", "access">>,
     <<"access", "done">>, <<"access", "body">>, <<"body", "backend">>,
     <<"backend", "done">>}

\* the gate that ends a request at the position it is left from
EndsAt(pc) == CASE pc = "idle" -> "identity" [] pc = "limit" -> "rate"
                [] pc = "access" -> "access" [] OTHER -> "none"

\* C26: the gates run in the order identity, rate check, authorization and a
\* request stops at the first that fails: a request of an active partner that
\* is over its quota gets 429, also when its service is not in the partner's
\* allowed set, and the 429 carries the remaining count computed after the
\* rejection (the limit less the stored timestamps inside the window, not
\* below 0) and the reset seconds.
C26_GateOrder ==
    /\ [][\A r \in Tasks : task'[r].pc # task[r].pc =>
            /\ <<task[r].pc, task'[r].pc>> \in GateOrder
            /\ task'[r].pc = "done" => task'[r].rejected_by = EndsAt(task[r].pc)
            /\ (task[r].pc = "limit" /\ task'[r].pc = "done") =>
                  LET p  == Get(task[r].partner)
                      ts == State(requests', p)
                  IN /\ task'[r].status = 429
                     /\ task'[r].remaining =
                           Some(Max(0, partners[p].rate_limit - InWindowCount(ts, now')))
                     /\ task'[r].reset =
                           Some(IF ts = <<>> THEN 0
                                ELSE Max(0, IntSeconds(MinOf(ts) + W - now')))]_vars
    /\ [](\A r \in Tasks :
            (task[r].pc = "done" /\ task[r].gate.active /\ ~task[r].gate.allowed) =>
                /\ task[r].status = 429 /\ task[r].rejected_by = "rate"
                /\ ~task[r].gate.authorized /\ task[r].calls = 0)

\* a request of an active partner over its quota, for a service outside the
\* partner's allowed set, has been answered with 429
C26_Witness ==
    \E r \in Tasks :
        /\ task[r].status = 429
        /\ task[r].gate.active
        /\ partners[Get(task[r].partner)].is_active
        /\ task[r].service \notin partners[Get(task[r].partner)].allowed_services
        /\ task[r].remaining = Some(0)
        /\ task[r].reset # None

\* C27: get_reset_time(p) is 0 when nothing is stored for p and otherwise
\* max(0, oldest stored + W - now); it lies in [0, W] and is never negative,
\* also when the oldest stored timestamp has left the window unpruned.  (The
\* clock and W are in half seconds, the value returned in seconds.)
C27_ResetTime ==
    \A p \in LimiterIds :
        LET ts == State(requests, p)
            v  == get_reset_time(ts, now)
        IN /\ ts = <<>> => v = 0
           /\ ts # <<>> => 2 * v = Max(0, MinOf(ts) + W - now)
           /\ 0 <= v /\ 2 * v <= W

\* C28: for a partner called with a fixed quota q >= 0, after any sequence of
\* is_allowed, get_remaining and get_reset_time calls the list stored for the
\* partner holds at most q timestamps, however many calls were made.
C28_StoredAtMostQuota ==
    \A p \in LimiterIds : Len(State(requests, p)) <= quota[p]

\* a partner with quota 2 has been admitted three times over two windows and
\* rejected once; two timestamps are stored
C28_Witness ==
    \E p \in LimiterIds :
        /\ quota[p] = 2
        /\ Len(Admitted(p)) = 3
        /\ \E i \in 1 .. Len(calllog) : calllog[i].p = p /\ ~calllog[i].ok
        /\ Len(requests[p]) = 2

\* is_allowed has returned True for the task and appended its timestamp
Recorded(r) ==
    task[r].gate.allowed /\ task[r].pc \in {"access", "body", "backend", "done"}

\* the step ends task r at a gate
RejectionStep(r) ==
    task[r].pc # "done" /\ task'[r].pc = "done" /\ task'[r].rejected_by # "none"

\* C29: a request rejected by the authorization gate (403, service not in the
\* allow-list) has recorded a timestamp in its partner's window before, and so
\* has used one unit of the quota; a request rejected with 401, with 403 for
\* a deactivated partner or with 429 records none.  The timestamps admitted
\* for a partner are those of its requests that passed the rate check, and
\* the step that rejects a request stores nothing.
C29_AccessRejectionUsesQuota ==
    /\ [](\A r \in Tasks :
            /\ task[r].rejected_by = "access" => (Recorded(r) /\ task[r].status = 403)
            /\ task[r].rejected_by \in {"identity", "rate"} =>
                  (~Recorded(r) /\ task[r].status \in {401, 403, 429}))
    /\ [](\A p \in DOMAIN partners :
            Len(Admitted(p))
                = Cardinality({r \in Tasks : task[r].partner = Some(p) /\ Recorded(r)}))
    /\ [][\A r \in Tasks : RejectionStep(r) =>
            /\ requests' = requests
            /\ \A p \in DOMAIN partners : Admitted(p)' = Admitted(p)
            /\ task'[r].rejected_by = "access" =>
                  LET p == Get(task[r].partner) IN
                  /\ State(requests, p) # <<>>
                  /\ Admitted(p) # <<>>
                  /\ requests[p][Len(requests[p])] = Admitted(p)[Len(Admitted(p))].t]_vars

\* a partner with quota 1: its request for a service outside its allowed set
\* was rejected with 403, and its next request in the window with 429
C29_Witness ==
    \E r1, r2 \in Tasks :
        /\ task[r1].partner = task[r2].partner /\ task[r1].partner # None
        /\ partners[Get(task[r1].partner)].rate_limit = 1
        /\ task[r1].rejected_by = "access" /\ task[r1].status = 403
        /\ task[r2].rejected_by = "rate" /\ task[r2].status = 429
        /\ Len(Admitted(Get(task[r1].partner))) = 1

\* C30: no lockout outlasts the window.  For a quota of at least 1, a call of
\* is_allowed at a time t that is W or more after the partner's most recent
\* admitted request returns True, however many calls were rejected in between.
C30_NoLockoutBeyondWindow ==
    [][\A p \in LimiterIds :
          (/\ IsAllowedStep(p)
           /\ quota[p] >= 1
           /\ Admitted(p) # <<>>
           /\ now - Admitted(p)[Len(Admitted(p))].t >= W)
              => calllog'[Len(calllog')].ok]_vars

\* a partner with quota 1 was admitted, then rejected inside the window, and
\* admitted again W or more after its admitted request
C30_Witness ==
    \E p \in LimiterIds :
        /\ quota[p] = 1
        /\ Len(calllog) >= 3
        /\ \E i, j \in 1 .. Len(calllog) - 1 :
              /\ i < j
              /\ calllog[i].p = p /\ calllog[i].ok
              /\ calllog[j].p = p /\ ~calllog[j].ok
              /\ calllog[Len(calllog)].t - calllog[i].t >= W
              /\ calllog[Len(calllog)].t - calllog[j].t < W
        /\ calllog[Len(calllog)].p = p /\ calllog[Len(calllog)].ok


(***************************************************************************)
(* Claims about the isolation of partners and about the reads of the       *)
(* limiter                                                                 *)
(***************************************************************************)
\* what is stored for partner p
Stored(p) == IF p \in DOMAIN requests THEN requests[p] ELSE <<>>

\* is_allowed called at the given times for a partner alone, on a limiter
\* that serves nobody else: the results and the list stored at the end
RECURSIVE AloneRun(_, _)
AloneRun(times, max_requests) ==
    IF times = <<>> THEN [results |-> <<>>, timestamps |-> <<>>]
    ELSE LET n    == Len(times)
             prev == AloneRun(SubSeq(times, 1, n - 1), max_requests)
             r    == is_allowed(prev.timestamps, times[n], max_requests)
         IN [results |-> Append(prev.results, r.ok), timestamps |-> r.timestamps]

\* C31: rate-limit state is isolated per partner.  A call of is_allowed,
\* get_remaining or get_reset_time for a partner never changes the timestamps
\* stored for another partner (a step changes the list of at most one partner,
\* and a step of is_allowed for p only that of p), and the results of a
\* partner's is_allowed calls and what is stored for it are those of the same
\* calls made for it alone, whatever calls for other partners are interleaved.
C31_PartnerIsolation ==
    /\ [][/\ \A a, b \in LimiterIds :
                (Stored(a)' # Stored(a) /\ Stored(b)' # Stored(b)) => a = b
          /\ \A p \in LimiterIds : IsAllowedStep(p) =>
                \A o \in LimiterIds \ {p} : Stored(o)' = Stored(o)]_vars
    /\ [](\A p \in LimiterIds :
            LET alone == AloneRun(CallTimes(p), quota[p]) IN
            /\ CallResults(p) = alone.results
            /\ Stored(p) = alone.timestamps)

\* the calls of two partners alternate; one of them has been admitted and then
\* rejected while the other, called in between, has timestamps stored
C31_Witness ==
    \E a, b \in LimiterIds :
        /\ a # b
        /\ Len(calllog) = 4
        /\ calllog[1].p = a /\ calllog[2].p = b
        /\ calllog[3].p = a /\ calllog[4].p = b
        /\ calllog[1].ok /\ ~calllog[3].ok
        /\ calllog[2].ok /\ calllog[4].ok
        /\ Len(Stored(b)) = 2

\* the step is a read of the limiter (get_remaining, get_reset_time): no call
\* of is_allowed is made and the clock stands
ReadStep == calllog' = calllog /\ now' = now

\* C32: at any instant and for any stored list, is_allowed(p, q) returns True
\* iff get_remaining(p, q) evaluated at that instant just before the call is
\* greater than 0; get_remaining and get_reset_time never change which
\* timestamps are stored (they at most create the partner's empty entry), so
\* they do not alter the outcome of any later is_allowed.
C32_AllowedIffRemaining ==
    /\ [](\A p \in LimiterIds :
            is_allowed(Stored(p), now, quota[p]).ok
                <=> (get_remaining(Stored(p), now, quota[p]) > 0))
    /\ [][\A p \in LimiterIds : IsAllowedStep(p) =>
            (calllog'[Len(calllog')].ok
                <=> (get_remaining(Stored(p), now, quota[p]) > 0))]_vars
    /\ [][ReadStep =>
            /\ \A p \in LimiterIds : Stored(p)' = Stored(p)
            /\ \A p \in LimiterIds :
                  is_allowed(Stored(p)', now', quota[p]')
                      = is_allowed(Stored(p), now, quota[p])]_vars

\* a partner was only read (its entry exists, no call of is_allowed was made
\* for it); another, with quota 1, was admitted and then rejected at one
\* instant a window or more after the start, and has no request remaining
C32_Witness ==
    \E p, o \in LimiterIds :
        /\ o \in DOMAIN requests /\ CallTimes(o) = <<>>
        /\ quota[p] = 1
        /\ Len(calllog) >= 2
        /\ calllog[Len(calllog) - 1] = [p |-> p, t |-> now, max |-> 1, ok |-> TRUE]
        /\ calllog[Len(calllog)] = [p |-> p, t |-> now, max |-> 1, ok |-> FALSE]
        /\ get_remaining(Stored(p), now, quota[p]) = 0
        /\ now >= W

(***************************************************************************)
(* Claims about the audit log and the gates                                *)
(***************************************************************************)
\* the is_allowed calls that returned True, for whichever partner
AdmittedEver == SelectSeq(calllog, LAMBDA c : c.ok)

\* C33: in every reachable state of the gateway the logger's counter, the
\* number of audit entries ever recorded, is at most the number of timestamps
\* ever admitted by the rate limiter, and every audit entry ever recorded
\* names the partner of a request whose key resolved to it, that was active,
\* under its quota and authorized for the entry's service when the request
\* passed the gates.
C33_AuditedWereAdmitted ==
    [](/\ counter <= Len(AdmittedEver)
       /\ \A p \in DOMAIN partners :
             Len(SelectSeq(history, LAMBDA h : h.log.partner_id = p)) <= Len(Admitted(p))
       /\ \A i \in 1 .. Len(history) :
             LET r == history[i].task
                 e == history[i].log
             IN /\ task[r].partner = Some(e.partner_id)
                /\ e.partner_id \in DOMAIN partners
                /\ e.partner_name = partners[e.partner_id].name
                /\ e.service = task[r].service
                /\ task[r].gate.resolved /\ task[r].gate.active
                /\ task[r].gate.allowed /\ task[r].gate.authorized
                /\ e.service \in partners[e.partner_id].allowed_services)

\* one request has been forwarded and logged; another, admitted by the rate
\* limiter, was turned away at the access gate and left no entry
C33_Witness ==
    \E r1, r2 \in Tasks :
        /\ Forwarded(r1) /\ EntriesOf(r1) # <<>>
        /\ task[r2].rejected_by = "access" /\ task[r2].gate.allowed
        /\ counter = 1 /\ Len(AdmittedEver) = 2

(***************************************************************************)
(* Claims about deactivation while requests are in flight                  *)
(***************************************************************************)
\* task r waits for the backend and its partner has been deactivated since it
\* passed the gates
InFlightDeactivated(r) ==
    /\ task[r].pc = "backend"
    /\ ~partners[Get(task[r].partner)].is_active

\* task r presented the key of a partner that was deactivated by then
CameAfterDeactivation(r) == task[r].gate.resolved /\ ~task[r].gate.active

\* the status that goes with the outcome of a backend call
OutcomeStatus(outcome) ==
    CASE outcome = "response" -> BackendStatuses
      [] outcome = "timeout"  -> {504}
      [] outcome = "error"    -> {502}
      [] OTHER                -> {}

\* C34: if a partner is deactivated while one of its requests is suspended at
\* the backend call, that request can still be resumed, its next step ends it
\* with the outcome of the backend call and appends its audit entry under the
\* partner's id and name; every request that presents the partner's key after
\* the deactivation ends with 403 at the identity gate, in a step that stores
\* no timestamp and no audit entry, and makes no backend call.
C34_DeactivatedInFlight ==
    /\ [](\A r \in Tasks : (InFlightDeactivated(r) /\ running = NoTask) =>
            ENABLED (\E s \in BackendStatuses : BackendResponds(r, s)))
    /\ [][\A r \in Tasks : (InFlightDeactivated(r) /\ task'[r] # task[r]) =>
            LET p == Get(task[r].partner) IN
            /\ task'[r].pc = "done" /\ task'[r].rejected_by = "none"
            /\ task'[r].status \in OutcomeStatus(task'[r].outcome)
            /\ counter' = counter + 1
            /\ Len(history') = Len(history) + 1
            /\ history'[Len(history')].task = r
            /\ history'[Len(history')].log.partner_id = p
            /\ history'[Len(history')].log.partner_name = partners[p].name
            /\ history'[Len(history')].log.service = task[r].service
            /\ history'[Len(history')].log.status_code = task'[r].status
            /\ logs'[Len(logs')] = history'[Len(history')].log]_vars
    /\ [](\A r \in Tasks : CameAfterDeactivation(r) =>
            /\ task[r].pc = "done" /\ task[r].status = 403
            /\ task[r].rejected_by = "identity"
            /\ task[r].partner = None /\ task[r].calls = 0
            /\ EntriesOf(r) = <<>>)
    /\ [][\A r \in Tasks : (~CameAfterDeactivation(r) /\ CameAfterDeactivation(r)') =>
            /\ requests' = requests /\ calllog' = calllog
            /\ logs' = logs /\ counter' = counter /\ history' = history]_vars

\* the first request of a partner waits for the backend, the partner has been
\* deactivated, and its second request has been rejected with 403
C34_Witness ==
    \E r1, r2 \in Tasks :
        /\ r1 < r2
        /\ InFlightDeactivated(r1)
        /\ task[r2].key = task[r1].key
        /\ CameAfterDeactivation(r2) /\ task[r2].status = 403
        /\ Len(Admitted(Get(task[r1].partner))) = 1
        /\ history = <<>>
====
